---- MODULE Spec2Model ----
(***************************************************************************)
(* Model of the Discord reply agent (src/src/agent.py), of its message    *)
(* tracking table (src/src/connections/postgres.py) and of the Twitter     *)
(* connection (src/src/connections/twitter_connection.py).                 *)
(*                                                                         *)
(* Python strings are modelled as sequences: a message id is the sequence  *)
(* of its decimal digits (0..9, whose order is the order of the code       *)
(* points '0'..'9'), an author or a message body is a sequence of          *)
(* one-character strings.  The comparison msg_id > last_processed_message_id*)
(* is therefore the lexicographic comparison Python makes on str, and the  *)
(* channel's native (creation time) ordering is the ordering of Num(id).   *)
(***************************************************************************)
EXTENDS Integers, Sequences, FiniteSets, TLC

\* ------------------------------------------------------------------ bounds
\* smallest and largest snowflake a message of the channel can carry
MinId == 9
MaxId == 11
\* most messages the channel ever holds
MaxMsgs == 3
\* most process starts after the first one
MaxRestarts == 1
\* successful replies to one message are counted up to this number
MaxSent == 2
\* most messages the channel holds when the first process starts
MaxBacklog == 2

\* ------------------------------------------------------ program constants
message_read_count == 10
channel_id == "CHANNEL_ID"
None == "None"

\* --------------------------------------------------------- Python strings
Digits == 0 .. 9

RECURSIVE Str(_)
\* str(n) for a natural number n: its decimal digits
Str(n) == IF n < 10 THEN <<n>> ELSE Append(Str(n \div 10), n % 10)

RECURSIVE Num(_)
\* int(s) for a digit string s: the snowflake the id denotes
Num(s) == IF Len(s) = 0 THEN 0
          ELSE 10 * Num(SubSeq(s, 1, Len(s) - 1)) + s[Len(s)]

Min2(a, b) == IF a < b THEN a ELSE b

\* a < b on Python str: the first differing character decides, a proper
\* prefix is smaller
PyStrLT(a, b) ==
    \/ /\ Len(a) < Len(b)
       /\ \A j \in 1 .. Len(a) : a[j] = b[j]
    \/ \E i \in 1 .. Min2(Len(a), Len(b)) :
          /\ a[i] < b[i]
          /\ \A j \in 1 .. (i - 1) : a[j] = b[j]

\* a > b on Python str
PyStrGT(a, b) == PyStrLT(b, a)

UpperCase == <<"A", "C", "E", "L", "P", "R", "Z">>
LowerCase == <<"a", "c", "e", "l", "p", "r", "z">>

\* str.lower() on one character
LowerChar(c) ==
    IF \E i \in 1 .. Len(UpperCase) : UpperCase[i] = c
    THEN LowerCase[CHOOSE i \in 1 .. Len(UpperCase) : UpperCase[i] = c]
    ELSE c

\* str.lower()
Lower(s) == [i \in 1 .. Len(s) |-> LowerChar(s[i])]

\* sub in s
Contains(sub, s) ==
    \E k \in 0 .. (Len(s) - Len(sub)) :
        \A j \in 1 .. Len(sub) : s[k + j] = sub[j]

\* ------------------------------------------------------------ the channel
APP == <<"A", "P", "P">>
zerecall == <<"z", "e", "r", "e", "c", "a", "l", "l">>
at_zerecall == <<"@">> \o zerecall
lt_at_zerecall == <<"<", "@">> \o zerecall

\* the authors and bodies the channel's messages are drawn from
author_alice == <<"a", "l", "i", "c", "e">>
author_bot == <<"Z", "e", "r", "e", " ", "A", "P", "P">>
author_handle == <<"Z", "e", "r", "e", "C", "a", "l", "l">>
body_plain == <<"h", "i">>
body_mention == <<"h", "e", "y", " ", "@", "Z", "e", "r", "e", "c", "a", "l", "l">>

\* (author, message) pairs a posted message can have
Kinds ==
    { <<author_alice, body_plain>>,
      <<author_bot, body_plain>>,
      <<author_handle, body_plain>>,
      <<author_alice, body_mention>> }

IdStrs == { Str(n) : n \in MinId .. MaxId }

VARIABLES
    channel,                    \* the channel's messages, oldest first
    last_processed_message_id,  \* self.last_processed_message_id
    message_tracking,           \* rows (channel_id, message_id) of the table
    messages,                   \* process_new_messages: messages
    new_messages,               \* process_new_messages: new_messages still to visit
    pc,                         \* where the process is
    sent,                       \* id -> number of replies sent successfully
    log,                        \* reply_to_message calls of the current tick
    prevFailed,                 \* ids whose reply failed in the previous tick
    prevLast,                   \* id of the last reply_to_message call before this tick
    lost,                       \* ids replied to whose INSERT did not commit
    startup,                    \* last_processed_message_id as __init__ left it
    lifetime,                   \* number of process restarts so far
    fetch_error,                \* the "read-messages" action raised in this tick
    call,                       \* the operation last performed on a connection or on the table
    result,                     \* what that operation returned or raised
    requests,                   \* the API requests that operation made
    _oauth_session              \* TwitterConnection._oauth_session

vars == <<channel, last_processed_message_id, message_tracking, messages,
          new_messages, pc, sent, log, prevFailed, prevLast, lost, startup,
          lifetime, fetch_error, call, result, requests, _oauth_session>>

\* the variables the agent's loop never touches
performed == <<call, result, requests, _oauth_session>>

\* nothing has been performed yet
NoCall == [name |-> None]
NoResult == [kind |-> None]


\* ----------------------------------------------------------- the feed
Reverse(s) == [i \in 1 .. Len(s) |-> s[Len(s) + 1 - i]]

\* the messages a channel can hold: the keys process_new_messages reads
Message == [id : IdStrs, author : {k[1] : k \in Kinds}, message : {k[2] : k \in Kinds}]

\* "read-messages"(channel_id, count): the count most recent messages of
\* the channel, newest first
ReadMessagesAction(count) ==
    LET n == Len(channel)
        recent == IF n > count THEN SubSeq(channel, n - count + 1, n) ELSE channel
    IN  Reverse(recent)

\* read_messages whose except branch still hands on what the feed holds
read_messages_NotEmptied(raises) == ReadMessagesAction(message_read_count)

\* read_messages(): the action's result, or [] when the action raises
read_messages(raises) ==
    IF raises THEN <<>> ELSE ReadMessagesAction(message_read_count)

\* _get_latest_message_id(): the id of the first message read, or None
_get_latest_message_id(raises) ==
    LET msgs == read_messages(raises)
    IN  IF Len(msgs) > 0 THEN msgs[1].id ELSE None

\* __init__: last_processed_message_id with its "0" fallback
InitialWatermark(raises) ==
    LET latest == _get_latest_message_id(raises)
    IN  IF latest = None THEN Str(0) ELSE latest

\* ------------------------------------------------------ the tracking table
\* get_replied_messages without its WHERE match: no message is ever found
get_replied_messages_Never(rows, c, m) == FALSE

\* SELECT EXISTS(... WHERE channel_id = c AND message_id = m)
get_replied_messages(rows, c, m) == <<c, m>> \in rows

\* add_replied_message without conn.commit(): the row is never stored
add_replied_message_NoCommit(rows, c, m, io_fails) ==
    [raised |-> io_fails \/ <<c, m>> \in rows, rows |-> rows]

\* add_replied_message that catches and logs its own exception
add_replied_message_Swallow(rows, c, m, io_fails) ==
    [raised |-> FALSE,
     rows |-> IF io_fails THEN rows ELSE rows \cup {<<c, m>>}]

\* INSERT INTO message_tracking (channel_id, message_id): the primary key
\* rejects a row that is already there, and the connection can fail
add_replied_message(rows, c, m, io_fails) ==
    IF io_fails \/ <<c, m>> \in rows
    THEN [raised |-> TRUE, rows |-> rows]
    ELSE [raised |-> FALSE, rows |-> rows \cup {<<c, m>>}]

\* --------------------------------------------------- process_new_messages
\* the skip test without .lower(): the handle is matched case-sensitively
IsBotRelated_CaseSensitive(msg) ==
    \/ Contains(APP, msg.author)
    \/ Contains(zerecall, msg.author)
    \/ Contains(at_zerecall, msg.message)

\* the test that skips a bot message or a message that mentions the bot
IsBotRelated(msg) ==
    \/ Contains(APP, msg.author)
    \/ Contains(zerecall, Lower(msg.author))
    \/ Contains(at_zerecall, Lower(msg.message))
    \/ \E ref \in {at_zerecall, lt_at_zerecall} : Contains(ref, Lower(msg.message))

\* the test with its operands swapped
IsNew_Swapped(msg_id, watermark) == PyStrGT(watermark, msg_id)

\* the test that keeps a message as new
IsNew(msg_id, watermark) == PyStrGT(msg_id, watermark)

\* the first loop: new_messages built from reversed(messages)
FilterNew(msgs, watermark) ==
    SelectSeq(Reverse(msgs),
              LAMBDA msg : ~IsBotRelated(msg) /\ IsNew(msg.id, watermark))

\* what reply_to_message can do: _generate_reply raises, the
\* "reply-to-message" action raises, it returns a falsy result, or it succeeds
Outcomes == {"generate_raises", "reply_raises", "falsy", "ok"}

\* the reply reached the channel: the "reply-to-message" action returned
\* a truthy result
Delivered(outcome) == outcome = "ok"

\* reply_to_message that returns True whenever nothing raised, without
\* looking at the action's result
reply_to_message_IgnoresResult(outcome) ==
    outcome \notin {"generate_raises", "reply_raises"}

\* reply_to_message whose try block starts after _generate_reply: a failed
\* generation is not turned into False
reply_to_message_GenerationUncaught(outcome) ==
    outcome \in {"generate_raises", "ok"}

\* reply_to_message's return value: True when the action's result is
\* truthy, False when it is falsy or when anything raised
reply_to_message(outcome) ==
    IF outcome \in {"generate_raises", "reply_raises"} THEN FALSE
    ELSE outcome # "falsy"

\* the log keeps the kind of failure of the latest call only
Settled(l) ==
    [i \in 1 .. Len(l) |->
        [id |-> l[i].id,
         outcome |-> IF Delivered(l[i].outcome) THEN "ok" ELSE "failed"]]

FailedIds(l) == {l[i].id : i \in {j \in 1 .. Len(l) : ~Delivered(l[j].outcome)}}

\* loop() without its inner try: the exception ends the process
loop_except_Exception_Missing == "crashed"

\* loop(): except Exception logs, sleeps 2 seconds and goes round again
loop_except_Exception == "backoff"

\* the process is in one of loop()'s two sleeps, between two ticks
BetweenTicks == pc \in {"sleep", "backoff"}

\* a for loop whose body catches the exception and goes on with the next
\* candidate
RaiseInTick_Continues(candidates) ==
    [pc |-> "for", new_messages |-> Tail(candidates)]

\* an exception raised in the second loop leaves process_new_messages: the
\* candidates that are left are dropped and loop() handles the exception
RaiseInTick(candidates) ==
    [pc |-> loop_except_Exception, new_messages |-> <<>>]

ChannelOK(ch) ==
    \A i \in 1 .. Len(ch) - 1 : Num(ch[i].id) < Num(ch[i + 1].id)

Backlogs ==
    {ch \in UNION {[1 .. n -> Message] : n \in 0 .. MaxBacklog} :
        /\ ChannelOK(ch)
        /\ \A i \in 1 .. Len(ch) : <<ch[i].author, ch[i].message>> \in Kinds}

Init ==
    /\ channel \in Backlogs
    /\ \E raises \in BOOLEAN :
          last_processed_message_id = InitialWatermark(raises)
    /\ startup = last_processed_message_id
    /\ message_tracking = {}
    /\ messages = <<>>
    /\ new_messages = <<>>
    /\ pc = "sleep"
    /\ sent = [m \in IdStrs |-> 0]
    /\ log = <<>>
    /\ prevFailed = {}
    /\ prevLast = None
    /\ lost = {}
    /\ lifetime = 0
    /\ fetch_error = FALSE
    /\ call = NoCall
    /\ result = NoResult
    /\ requests = <<>>
    /\ _oauth_session = None

\* somebody (a user, or the bot's own account) posts a message: it gets a
\* snowflake larger than every earlier one
Post ==
    /\ Len(channel) < MaxMsgs
    /\ \E n \in MinId .. MaxId, k \in Kinds :
          /\ Len(channel) > 0 => n > Num(channel[Len(channel)].id)
          /\ channel' = Append(channel, [id |-> Str(n), author |-> k[1], message |-> k[2]])
    /\ UNCHANGED <<last_processed_message_id, message_tracking, messages,
                   new_messages, pc, sent, log, prevFailed, prevLast, lost,
                   startup, lifetime, fetch_error>>
    /\ UNCHANGED performed

\* the history of the tick that ended, kept when the next one starts
NewTick ==
    /\ log' = <<>>
    /\ prevFailed' = FailedIds(log)
    /\ prevLast' = IF Len(log) > 0 THEN log[Len(log)].id ELSE prevLast

\* process_new_messages up to the end of its first loop, with the feed
\* result msgs
FetchAndFilter(msgs) ==
    /\ BetweenTicks
    /\ messages' = msgs
    /\ new_messages' = IF last_processed_message_id = <<>> THEN <<>>
                       ELSE FilterNew(msgs, last_processed_message_id)
    /\ pc' = "for"
    /\ NewTick
    /\ UNCHANGED <<channel, last_processed_message_id, message_tracking,
                   sent, lost, startup, lifetime>>
    /\ UNCHANGED performed

Fetch ==
    \E raises \in BOOLEAN :
        /\ fetch_error' = raises
        /\ FetchAndFilter(read_messages(raises))

\* second loop: the message has a row, nothing is done for it
DedupSkip ==
    /\ pc = "for"
    /\ new_messages # <<>>
    /\ get_replied_messages(message_tracking, channel_id, Head(new_messages).id)
    /\ new_messages' = Tail(new_messages)
    /\ UNCHANGED <<channel, last_processed_message_id, message_tracking,
                   messages, pc, sent, log, prevFailed, prevLast, lost,
                   startup, lifetime, fetch_error>>
    /\ UNCHANGED performed

\* second loop: get_replied_messages cannot reach the database; its
\* exception leaves process_new_messages and is caught by loop()
DedupRaises ==
    /\ pc = "for"
    /\ new_messages # <<>>
    /\ pc' = RaiseInTick(new_messages).pc
    /\ new_messages' = RaiseInTick(new_messages).new_messages
    /\ messages' = <<>>
    /\ fetch_error' = FALSE
    /\ UNCHANGED <<channel, last_processed_message_id, message_tracking,
                   sent, log, prevFailed, prevLast, lost, startup, lifetime>>
    /\ UNCHANGED performed

\* second loop: the message has no row, reply_to_message is called
Reply ==
    /\ pc = "for"
    /\ new_messages # <<>>
    /\ LET msg_id == Head(new_messages).id
       IN  /\ ~get_replied_messages(message_tracking, channel_id, msg_id)
           /\ \E outcome \in Outcomes :
                 /\ log' = Append(Settled(log), [id |-> msg_id, outcome |-> outcome])
                 /\ sent' = IF Delivered(outcome)
                            THEN [sent EXCEPT ![msg_id] = Min2(@ + 1, MaxSent)]
                            ELSE sent
                 /\ IF reply_to_message(outcome)
                    THEN /\ pc' = "record"
                         /\ UNCHANGED new_messages
                    ELSE /\ new_messages' = Tail(new_messages)
                         /\ UNCHANGED pc
    /\ UNCHANGED <<channel, last_processed_message_id, message_tracking,
                   messages, prevFailed, prevLast, lost, startup, lifetime,
                   fetch_error>>
    /\ UNCHANGED performed

\* second loop after a successful reply: the row is inserted, then the
\* watermark is set; an exception of the INSERT leaves process_new_messages
\* and is caught by loop()
Record ==
    /\ pc = "record"
    /\ LET msg_id == Head(new_messages).id
       IN  \E io_fails \in BOOLEAN :
              LET r == add_replied_message(message_tracking, channel_id, msg_id, io_fails)
              IN  IF r.raised
                  THEN /\ pc' = RaiseInTick(new_messages).pc
                       /\ new_messages' = RaiseInTick(new_messages).new_messages
                       /\ messages' = <<>>
                       /\ lost' = lost \cup {msg_id}
                       /\ UNCHANGED <<message_tracking, last_processed_message_id>>
                  ELSE /\ message_tracking' = r.rows
                       /\ last_processed_message_id' = msg_id
                       /\ new_messages' = Tail(new_messages)
                       /\ pc' = "for"
                       /\ UNCHANGED <<messages, lost>>
    /\ UNCHANGED <<channel, sent, log, prevFailed, prevLast, startup, lifetime,
                   fetch_error>>
    /\ UNCHANGED performed

\* process_new_messages returns, loop() sleeps loop_delay
Return ==
    /\ pc = "for"
    /\ new_messages = <<>>
    /\ pc' = "sleep"
    /\ messages' = <<>>
    /\ fetch_error' = FALSE
    /\ UNCHANGED <<channel, last_processed_message_id, message_tracking,
                   new_messages, sent, log, prevFailed, prevLast, lost,
                   startup, lifetime>>
    /\ UNCHANGED performed

\* a reply that was sent and whose INSERT the process never reaches
Cut == IF pc = "record" /\ sent[Head(new_messages).id] > 0 THEN lost \cup {Head(new_messages).id} ELSE lost

\* Ctrl+C: KeyboardInterrupt is raised wherever the process is
KeyboardInterrupt ==
    /\ pc \in {"sleep", "backoff", "for", "record"}
    /\ pc' = "stopped"
    /\ lost' = Cut
    /\ new_messages' = <<>>
    /\ messages' = <<>>
    /\ fetch_error' = FALSE
    /\ UNCHANGED <<channel, last_processed_message_id, message_tracking,
                   sent, log, prevFailed, prevLast, startup, lifetime>>
    /\ UNCHANGED performed

\* the process ends (stopped or killed) and a new one runs __init__; the
\* table is all that survives
Restart ==
    /\ lifetime < MaxRestarts
    /\ lifetime' = lifetime + 1
    /\ \E raises \in BOOLEAN :
          last_processed_message_id' = InitialWatermark(raises)
    /\ startup' = last_processed_message_id'
    /\ lost' = Cut
    /\ pc' = "sleep"
    /\ new_messages' = <<>>
    /\ messages' = <<>>
    /\ log' = <<>>
    /\ prevFailed' = {}
    /\ prevLast' = None
    /\ fetch_error' = FALSE
    /\ UNCHANGED <<channel, message_tracking, sent>>
    /\ UNCHANGED performed

Next ==
    \/ Post
    \/ Fetch
    \/ DedupSkip
    \/ DedupRaises
    \/ Reply
    \/ Record
    \/ Return
    \/ KeyboardInterrupt
    \/ Restart

Spec == Init /\ [][Next]_vars

\* the orders a feed that does not keep to newest-first can return
Orders(s) ==
    {[i \in 1 .. Len(s) |-> s[p[i]]] : p \in Permutations(1 .. Len(s))}

\* a tick whose feed returns the recent messages in any order
FetchAnyOrder ==
    /\ BetweenTicks
    /\ \E msgs \in Orders(ReadMessagesAction(message_read_count)) \cup {<<>>} :
          /\ fetch_error' = (msgs = <<>> /\ channel # <<>>)
          /\ FetchAndFilter(msgs)

\* one process lifetime, never interrupted, on such a feed
NextAnyOrder ==
    \/ Post
    \/ FetchAnyOrder
    \/ DedupSkip
    \/ DedupRaises
    \/ Reply
    \/ Record
    \/ Return

SpecAnyOrder == Init /\ [][NextAnyOrder]_vars

TypeOK ==
    /\ ChannelOK(channel)
    /\ pc \in {"sleep", "backoff", "for", "record", "stopped"}
    /\ last_processed_message_id \in IdStrs \cup {Str(0)}

\* ================================================================ claims
HasRecord(m) == <<channel_id, m>> \in message_tracking

IdsOf(seq) == {seq[i].id : i \in 1 .. Len(seq)}

\* the tick has visited every candidate and is about to return
TickDone == pc = "for" /\ new_messages = <<>>

\* a step that calls reply_to_message
ReplyCalled == Len(log') > Len(log)

\* a message of the agent's own account or one that carries its mention token
OwnOrMention(msg) ==
    \/ Contains(<<"A", "P", "P">>, msg.author)
    \/ Contains(zerecall, Lower(msg.author))
    \/ Contains(at_zerecall, Lower(msg.message))

\* C1: reply_to_message is never called for a message whose
\* (channel_id, message_id) row is in the table, whatever was fetched and
\* however often the process restarted.
C1_NoReplyWhenRecorded ==
    [][ReplyCalled => ~HasRecord(log'[Len(log')].id)]_vars

\* a message that has its row is a candidate again
C1_Witness ==
    /\ pc = "for"
    /\ new_messages # <<>>
    /\ HasRecord(Head(new_messages).id)
    /\ sent[Head(new_messages).id] = 1

C3_WatermarkMonotone ==
    [][lifetime' = lifetime =>
          Num(last_processed_message_id') >= Num(last_processed_message_id)]_vars

\* C4: no assignment of a tick moves the watermark to or past the id of a
\* message whose reply failed earlier in that tick, so at the end of the
\* tick the watermark is still below that message.
C4_NotPastFailed ==
    [][(lifetime' = lifetime /\ pc = "record" /\
        last_processed_message_id' # last_processed_message_id) =>
          \A m \in FailedIds(log) : Num(last_processed_message_id') < Num(m)]_vars

\* C5: a message whose reply failed in the previous tick, that is fetched
\* again and has no row, has been tried again when the tick ends.
C5_RetriedNextTick ==
    TickDone =>
        \A m \in prevFailed :
            (m \in IdsOf(messages) /\ ~HasRecord(m)) => m \in IdsOf(log)

\* C6: every call of reply_to_message is for a larger id than the call
\* before it, in the same tick or in an earlier one, in whatever order the
\* feed returned the messages.
C6_AttemptsIncreasing ==
    [][ReplyCalled =>
          LET prev == IF Len(log) > 0 THEN log[Len(log)].id ELSE prevLast
          IN  prev # None => Num(log'[Len(log')].id) > Num(prev)]_vars

\* C7: a message of the agent's own account, or with the mention token in
\* its body, is never a candidate and never gets a reply.
C7_SelfFilter ==
    \A i \in 1 .. Len(channel) :
        OwnOrMention(channel[i]) =>
            /\ sent[channel[i].id] = 0
            /\ channel[i].id \notin IdsOf(new_messages)
            /\ channel[i].id \notin IdsOf(log)

\* such a message was fetched above the watermark, without a row, and the
\* tick ended
C7_Witness ==
    /\ TickDone
    /\ \E i \in 1 .. Len(messages) :
          /\ OwnOrMention(messages[i])
          /\ Num(messages[i].id) > Num(last_processed_message_id)
          /\ IsNew(messages[i].id, last_processed_message_id)
          /\ ~HasRecord(messages[i].id)

\* C8: the candidates of a tick are exactly the fetched messages that pass
\* the self filter and whose id is greater than the watermark in the
\* channel's id ordering.
C8_FilterNative ==
    [][(BetweenTicks /\ pc' = "for") =>
          IdsOf(new_messages') =
              {messages'[i].id : i \in
                  {j \in 1 .. Len(messages') :
                      /\ ~OwnOrMention(messages'[j])
                      /\ Num(messages'[j].id) > Num(last_processed_message_id)}}]_vars

C10_WatermarkRecorded ==
    \/ last_processed_message_id = startup
    \/ /\ HasRecord(last_processed_message_id)
       /\ sent[last_processed_message_id] >= 1

\* the watermark has moved
C10_Witness ==
    /\ last_processed_message_id # startup
    /\ HasRecord(last_processed_message_id)

\* the outcome of the reply_to_message call a step makes
CalledId == log'[Len(log')].id
CalledOutcome == log'[Len(log')].outcome

\* the fetched messages that pass the self filter
PassSelfFilter(msgs) ==
    {msgs[i].id : i \in {j \in 1 .. Len(msgs) : ~OwnOrMention(msgs[j])}}

\* C11: no message that was in the channel when the process started (its
\* id is at most the id __init__ read as the latest) gets a reply from that
\* process.
C11_NoBacklogReply ==
    [][(ReplyCalled /\ Delivered(CalledOutcome)) =>
          Num(CalledId) > Num(startup)]_vars

\* C12: a process started on an empty channel has the watermark "0", and
\* while the watermark is that "0" every fetched message that passes the
\* self filter is a candidate.
C12_StartupDefault ==
    /\ channel = <<>> => last_processed_message_id = Str(0)
    /\ [][/\ (lifetime' # lifetime /\ channel = <<>>) =>
                last_processed_message_id' = Str(0)
          /\ (/\ BetweenTicks
              /\ pc' = "for"
              /\ startup = Str(0)
              /\ last_processed_message_id = Str(0)
              /\ messages' # <<>>) =>
                IdsOf(new_messages') = PassSelfFilter(messages')]_vars

\* the first fetch with the "0" watermark holds a one-digit id, a
\* two-digit id, and a message the self filter drops
C12_Witness ==
    /\ pc = "for"
    /\ startup = Str(0)
    /\ last_processed_message_id = Str(0)
    /\ log = <<>>
    /\ Len(messages) = 3
    /\ Len(new_messages) = 2
    /\ \E i, j \in 1 .. Len(new_messages) :
          Len(new_messages[i].id) = 1 /\ Len(new_messages[j].id) = 2

\* C14: in one process a message gets at most two replies, the second one
\* after the INSERT that followed the first one failed.
C14_AtMostOnceMore ==
    [][(lifetime = 0 /\ ReplyCalled /\ Delivered(CalledOutcome)) =>
          sent[CalledId] < 2]_vars

\* C15: in a tick whose "read-messages" action raised, messages is empty,
\* no reply_to_message call is made, no row is written and the watermark
\* stays.
C15_FetchFailsSoft ==
    [][/\ fetch_error' =>
             messages' = <<>> /\ new_messages' = <<>> /\ log' = <<>>
       /\ (fetch_error /\ lifetime' = lifetime) =>
             /\ ~ReplyCalled
             /\ UNCHANGED <<message_tracking, last_processed_message_id, sent>>]_vars

\* the action raised while the channel held a message that a successful
\* fetch makes a candidate
C15_Witness ==
    /\ fetch_error
    /\ pc = "for"
    /\ \E i \in 1 .. Len(channel) :
          /\ ~OwnOrMention(channel[i])
          /\ IsNew(channel[i].id, last_processed_message_id)
          /\ ~HasRecord(channel[i].id)

\* C16: when generate-text raises for a candidate no reply is sent for
\* it, no row is written, the watermark stays, and the loop goes on with
\* the next candidate.
C16_GenerationFailureSoft ==
    [][(ReplyCalled /\ CalledOutcome = "generate_raises") =>
          /\ UNCHANGED <<sent, message_tracking, last_processed_message_id>>
          /\ pc' = "for"
          /\ new_messages' = Tail(new_messages)]_vars

\* generation failed for one candidate and the next one is about to be
\* visited
C16_Witness ==
    /\ pc = "for"
    /\ new_messages # <<>>
    /\ Len(log) > 0
    /\ log[Len(log)].outcome = "generate_raises"

\* C17: a step of a tick leaves the process in the tick, in one of
\* loop()'s sleeps, or stopped by the interrupt; after the sleep that
\* follows a caught exception the next thing the loop does is another tick.
C17_LoopSelfHealing ==
    [][lifetime' = lifetime =>
          /\ pc \in {"for", "record"} =>
                pc' \in {"for", "record", "sleep", "backoff", "stopped"}
          /\ (pc = "backoff" /\ pc' # "backoff") => pc' \in {"for", "stopped"}]_vars

\* a tick runs in a process that caught the exception of an INSERT earlier
C17_Witness ==
    /\ lifetime = 0
    /\ lost # {}
    /\ pc = "for"
    /\ new_messages # <<>>

\* C18: the interrupt never ends the loop inside a tick between a
\* delivered reply and the INSERT of the reply's row.
C18_InterruptKeepsRecord ==
    [][(pc' = "stopped" /\ pc # "stopped") => pc # "record"]_vars

\* C23: when add_replied_message raises after a delivered reply, the
\* watermark keeps its value, the candidates that are left get no
\* reply_to_message call in that tick, and the process is in the sleep of
\* loop()'s exception handler.
C23_WriteFailureAbortsTick ==
    [][/\ (/\ pc = "record"
           /\ pc' \notin {"record", "stopped"}
           /\ lifetime' = lifetime
           /\ <<channel_id, Head(new_messages).id>> \notin message_tracking') =>
              /\ pc' = "backoff"
              /\ new_messages' = <<>>
              /\ ~ReplyCalled
              /\ UNCHANGED <<last_processed_message_id, message_tracking>>
       /\ (pc = "backoff" /\ lifetime' = lifetime) =>
              /\ ~ReplyCalled
              /\ pc' = "for" => log' = <<>>]_vars

\* the reply to one message was delivered, its INSERT raised, and a later
\* message of the channel that is new and has no row got no call
C23_Witness ==
    /\ pc = "backoff"
    /\ Len(log) > 0
    /\ Delivered(log[Len(log)].outcome)
    /\ ~HasRecord(log[Len(log)].id)
    /\ \E i \in 1 .. Len(channel) :
          /\ ~OwnOrMention(channel[i])
          /\ Num(channel[i].id) > Num(log[Len(log)].id)
          /\ IsNew(channel[i].id, last_processed_message_id)
          /\ ~HasRecord(channel[i].id)
          /\ sent[channel[i].id] = 0

agent == <<channel, last_processed_message_id, messages, new_messages, pc,
           sent, log, prevFailed, prevLast, lost, startup, lifetime,
           fetch_error>>

\* the table is shared: rows of other channels are written by other processes
ChannelIds == {channel_id, "OTHER_CHANNEL_ID"}

\* a caller (a pass of this agent, a retried pass, another process) inserts
\* the row of a message
AddRepliedMessage ==
    \E c \in ChannelIds, m \in IdStrs, io_fails \in BOOLEAN :
        LET r == add_replied_message(message_tracking, c, m, io_fails) IN
        /\ message_tracking' = r.rows
        /\ call' = [name |-> "add_replied_message", channel_id |-> c,
                    message_id |-> m, io_fails |-> io_fails,
                    present |-> get_replied_messages(message_tracking, c, m)]
        /\ result' = [kind |-> IF r.raised THEN "raise" ELSE "return"]
        /\ UNCHANGED <<agent, requests, _oauth_session>>

\* a caller asks whether the row of a message exists
GetRepliedMessages ==
    \E c \in ChannelIds, m \in IdStrs :
        /\ call' = [name |-> "get_replied_messages", channel_id |-> c,
                    message_id |-> m]
        /\ result' = [kind |-> "return",
                      value |-> get_replied_messages(message_tracking, c, m)]
        /\ UNCHANGED <<agent, message_tracking, requests, _oauth_session>>

InitStore == Init /\ channel = <<>>

NextStore == AddRepliedMessage \/ GetRepliedMessages

SpecStore == InitStore /\ [][NextStore]_vars

\* C13: add_replied_message for a key that is already in the table
\* succeeds without error and leaves the row in the table.
C13_DuplicateNoOp ==
    (/\ call.name = "add_replied_message"
     /\ call.present
     /\ ~call.io_fails) =>
        /\ result.kind = "return"
        /\ get_replied_messages(message_tracking, call.channel_id, call.message_id)

\* ----------------------------------------------------- TwitterConnection
\* Python values passed as keyword arguments: a str of n characters, the int n
S(n) == [t |-> "str", n |-> n]
I(n) == [t |-> "int", n |-> n]
Values == {S(1), I(0), I(1)}

\* self.actions: the handler bound to each action name and its declared args
actions ==
    ("get-latest-tweets" :>
        [func |-> "get_latest_tweets", args |-> [username |-> "str", count |-> "int"]])
    @@ ("post-tweet" :>
        [func |-> "post_tweet", args |-> [message |-> "str"]])
    @@ ("read-timeline" :>
        [func |-> "read_timeline", args |-> [count |-> "int"]])
    @@ ("like-tweet" :>
        [func |-> "like_tweet", args |-> [tweet_id |-> "str"]])
    @@ ("reply-to-tweet" :>
        [func |-> "reply_to_tweet", args |-> [tweet_id |-> "str", message |-> "str"]])

\* action names a caller passes that the map does not hold
UnknownNames == {"unknown-action", "post_tweet"}

\* the keyword arguments a caller passes with an action name: any of the
\* declared ones and the undeclared bad_arg, each with any value
KwargsFor(action_name) ==
    LET names == IF action_name \in DOMAIN actions
                 THEN DOMAIN actions[action_name].args \cup {"bad_arg"}
                 ELSE {"bad_arg"}
    IN UNION {[D -> Values] : D \in SUBSET names}

StatusOK == 200
StatusCreated == 201
\* what the API does with a request: the transport fails (no status), or a
\* response with a status code comes back
HttpOutcomes ==
    {[transport_error |-> TRUE, status_code |-> 0]}
    \cup {[transport_error |-> FALSE, status_code |-> c] :
            c \in {StatusOK, StatusCreated}}

MaxTweetLen == 280
default_count == 10
max_results_cap == 100

\* results of a call: what it returned or raised, the requests it made and
\* the session it left in self._oauth_session
Raises(func, error, reqs, session) ==
    [handler |-> func, kind |-> "raise", error |-> error, value |-> None,
     requests |-> reqs, session |-> session]
Returns(func, value, reqs, session) ==
    [handler |-> func, kind |-> "return", error |-> None, value |-> value,
     requests |-> reqs, session |-> session]

\* response.json() of a successful request
Body == [data |-> <<[author_id |-> "u1"]>>]

\* _get_credentials: env.creds says whether all five variables are set
_get_credentials(env) ==
    IF env.creds THEN None ELSE "TwitterConfigurationError"

\* _get_oauth: the cached session, or a new one made from the credentials
_get_oauth(env) ==
    IF env.session # None THEN [error |-> None, session |-> env.session]
    ELSE IF _get_credentials(env) # None
    THEN [error |-> _get_credentials(env), session |-> None]
    ELSE [error |-> None, session |-> "OAuth1Session"]

\* method.lower() for the method names callers pass
lower(method) ==
    CASE method = "POST" -> "post"
      [] method = "GET" -> "get"
      [] OTHER -> method

\* expected_status with the same status for every method
expected_status_AlwaysOK(method) == StatusOK

expected_status(method) ==
    IF lower(method) = "post" THEN StatusCreated ELSE StatusOK

\* _make_request: every exception leaves as TwitterAPIError
_make_request(func, method, endpoint, data, env) ==
    LET oauth == _get_oauth(env)
        req == [method |-> lower(method), endpoint |-> endpoint, data |-> data]
    IN  IF oauth.error # None
        THEN Raises(func, "TwitterAPIError", <<>>, oauth.session)
        ELSE IF env.http.transport_error
        THEN Raises(func, "TwitterAPIError", <<req>>, oauth.session)
        ELSE IF env.http.status_code # expected_status(method)
        THEN Raises(func, "TwitterAPIError", <<req>>, oauth.session)
        ELSE Returns(func, Body, <<req>>, oauth.session)

\* _validate_tweet_text with >= in place of >: the longest text is rejected
_validate_tweet_text_OffByOne(text) ==
    IF text.n = 0 THEN "ValueError"
    ELSE IF text.t # "str" THEN "TypeError"
    ELSE IF text.n >= MaxTweetLen THEN "ValueError"
    ELSE None

\* _validate_tweet_text: the exception it raises, or None
_validate_tweet_text(text) ==
    IF text.n = 0 THEN "ValueError"
    ELSE IF text.t # "str" THEN "TypeError"
    ELSE IF text.n > MaxTweetLen THEN "ValueError"
    ELSE None

\* read_timeline's loop over the tweets, with no "includes" in the response
Enrich(tweets) ==
    [i \in 1 .. Len(tweets) |->
        [author_id |-> tweets[i].author_id, author_name |-> "Unknown",
         author_username |-> "Unknown"]]

read_timeline(kw, env) ==
    LET count == IF "count" \in DOMAIN kw THEN kw["count"] ELSE I(default_count)
        r == _make_request("read_timeline", "get",
                           "users/{id}/timelines/reverse_chronological",
                           [max_results |-> count], env)
    IN  IF _get_credentials(env) # None
        THEN Raises("read_timeline", _get_credentials(env), <<>>, env.session)
        ELSE IF r.kind = "raise" THEN r
        ELSE Returns("read_timeline", Enrich(r.value.data), r.requests, r.session)

get_latest_tweets(kw, env) ==
    LET count == IF "count" \in DOMAIN kw THEN kw["count"] ELSE I(default_count)
        r == _make_request("get_latest_tweets", "get", "users/{id}/tweets",
                           [max_results |-> I(Min2(count.n, max_results_cap))], env)
    IN  IF _get_credentials(env) # None
        THEN Raises("get_latest_tweets", _get_credentials(env), <<>>, env.session)
        ELSE IF count.t # "int"
        THEN Raises("get_latest_tweets", "TypeError", <<>>, env.session)
        ELSE IF r.kind = "raise" THEN r
        ELSE Returns("get_latest_tweets", r.value.data, r.requests, r.session)

post_tweet(kw, env) ==
    IF _validate_tweet_text(kw["message"]) # None
    THEN Raises("post_tweet", _validate_tweet_text(kw["message"]), <<>>, env.session)
    ELSE _make_request("post_tweet", "post", "tweets",
                       [text |-> kw["message"]], env)

reply_to_tweet(kw, env) ==
    IF _validate_tweet_text(kw["message"]) # None
    THEN Raises("reply_to_tweet", _validate_tweet_text(kw["message"]), <<>>, env.session)
    ELSE _make_request("reply_to_tweet", "post", "tweets",
                       [text |-> kw["message"],
                        in_reply_to_tweet_id |-> kw["tweet_id"]], env)

like_tweet(kw, env) ==
    IF _get_credentials(env) # None
    THEN Raises("like_tweet", _get_credentials(env), <<>>, env.session)
    ELSE _make_request("like_tweet", "post", "users/{id}/likes",
                       [tweet_id |-> kw["tweet_id"]], env)

\* the parameters without a default in each handler's signature
Required(func) ==
    CASE func = "read_timeline" -> {}
      [] func = "get_latest_tweets" -> {"username"}
      [] func = "post_tweet" -> {"message"}
      [] func = "reply_to_tweet" -> {"tweet_id", "message"}
      [] func = "like_tweet" -> {"tweet_id"}

\* func(**kwargs): Python raises TypeError when a parameter without default
\* gets no argument; every handler's **kwargs takes the undeclared ones
CallHandler(func, kw, env) ==
    IF ~(Required(func) \subseteq DOMAIN kw)
    THEN Raises(func, "TypeError", <<>>, env.session)
    ELSE CASE func = "read_timeline" -> read_timeline(kw, env)
           [] func = "get_latest_tweets" -> get_latest_tweets(kw, env)
           [] func = "post_tweet" -> post_tweet(kw, env)
           [] func = "reply_to_tweet" -> reply_to_tweet(kw, env)
           [] func = "like_tweet" -> like_tweet(kw, env)

\* perform_action that logs an unknown action name and returns None
perform_action_UnknownReturnsNone(action_name, kw, env) ==
    IF action_name \in DOMAIN actions
    THEN CallHandler(actions[action_name].func, kw, env)
    ELSE Returns(None, None, <<>>, env.session)

perform_action(action_name, kw, env) ==
    IF action_name \in DOMAIN actions
    THEN CallHandler(actions[action_name].func, kw, env)
    ELSE Raises(None, "TwitterConnectionError", <<>>, env.session)

\* TwitterConnection(): a new connection object
TwitterInit ==
    /\ _oauth_session' = None
    /\ call' = NoCall
    /\ result' = NoResult
    /\ requests' = <<>>
    /\ UNCHANGED <<agent, message_tracking>>

\* a caller performs an action on the connection
PerformAction ==
    \E action_name \in DOMAIN actions \cup UnknownNames,
       creds \in BOOLEAN, http \in HttpOutcomes :
      \E kw \in KwargsFor(action_name) :
        LET env == [creds |-> creds, http |-> http, session |-> _oauth_session]
            r == perform_action(action_name, kw, env)
        IN  /\ call' = [name |-> action_name, kwargs |-> kw, env |-> env]
            /\ result' = [handler |-> r.handler, kind |-> r.kind,
                          error |-> r.error, value |-> r.value]
            /\ requests' = r.requests
            /\ _oauth_session' = r.session
            /\ UNCHANGED <<agent, message_tracking>>

\* the texts a caller tweets: empty, one character, the longest one
\* allowed, and one character more
Texts == {S(0), S(1), S(MaxTweetLen), S(MaxTweetLen + 1)}

\* what the API answers to a request made directly: also a status that no
\* method expects
Responses ==
    HttpOutcomes
    \cup {[transport_error |-> FALSE, status_code |-> StatusCreated + 1]}

\* a caller calls post_tweet or reply_to_tweet with a text
Tweet ==
    \E func \in {"post_tweet", "reply_to_tweet"}, text \in Texts,
       creds \in BOOLEAN, http \in Responses :
        LET env == [creds |-> creds, http |-> http, session |-> _oauth_session]
            kw == IF func = "post_tweet"
                  THEN [message |-> text]
                  ELSE [tweet_id |-> S(1), message |-> text]
            r == CallHandler(func, kw, env)
        IN  /\ call' = [name |-> "handler", func |-> func, kwargs |-> kw,
                        env |-> env]
            /\ result' = [handler |-> r.handler, kind |-> r.kind,
                          error |-> r.error, value |-> r.value]
            /\ requests' = r.requests
            /\ _oauth_session' = r.session
            /\ UNCHANGED <<agent, message_tracking>>

Methods == {"get", "post", "POST", "delete"}

\* a method of the connection calls _make_request
MakeRequest ==
    \E method \in Methods, creds \in BOOLEAN, http \in Responses :
        LET env == [creds |-> creds, http |-> http, session |-> _oauth_session]
            r == _make_request(None, method, "tweets", [id |-> S(1)], env)
        IN  /\ call' = [name |-> "_make_request", method |-> method, env |-> env]
            /\ result' = [handler |-> r.handler, kind |-> r.kind,
                          error |-> r.error, value |-> r.value]
            /\ requests' = r.requests
            /\ _oauth_session' = r.session
            /\ UNCHANGED <<agent, message_tracking>>

InitTwitter == Init /\ channel = <<>>

NextTwitter == TwitterInit \/ PerformAction \/ Tweet \/ MakeRequest

SpecTwitter == InitTwitter /\ [][NextTwitter]_vars

\* the arguments satisfy the declared schema: exactly the declared fields,
\* each of its declared primitive type
SchemaOK(schema, kw) ==
    /\ DOMAIN kw = DOMAIN schema
    /\ \A a \in DOMAIN schema : kw[a].t = schema[a]

Performed == call.name \in DOMAIN actions \cup UnknownNames

\* C19: a declared action performed with arguments that do not satisfy its
\* declared schema raises an error and makes no API request.
C19_SchemaValidation ==
    (/\ call.name \in DOMAIN actions
     /\ ~SchemaOK(actions[call.name].args, call.kwargs)) =>
        /\ result.kind = "raise"
        /\ requests = <<>>

\* C20: an action name that is not in the map raises TwitterConnectionError
\* and no handler runs; a declared name runs the handler bound to it and
\* perform_action's result is that handler's result.
C20_UnknownAction ==
    /\ (Performed /\ call.name \notin
            {"get-latest-tweets", "post-tweet", "read-timeline",
             "like-tweet", "reply-to-tweet"}) =>
          /\ result.kind = "raise"
          /\ result.error = "TwitterConnectionError"
          /\ result.handler = None
          /\ requests = <<>>
    /\ \A name \in DOMAIN actions :
          call.name = name =>
             LET h == CallHandler(actions[name].func, call.kwargs, call.env) IN
             /\ result.handler = actions[name].func
             /\ result.kind = h.kind
             /\ result.error = h.error
             /\ result.value = h.value
             /\ requests = h.requests

\* an unknown action name is performed on a connection on which a declared
\* action has run before and opened the session
C20_Witness ==
    /\ call.name \in UnknownNames
    /\ call.kwargs # <<>>
    /\ result.kind = "raise"
    /\ _oauth_session # None

\* ------------------------------------------ reply_to_message, step by step
\* self.bio, a list of lines; lines are sequences of pieces
bio == <<<<"bio">>>>

\* rows of code_embeddings the similarity search finds
Rows == <<"doc1", "doc2">>

\* what happens in get_similar_content: embed_query raises, the SELECT
\* raises, the table has no row, or rows come back
ContextOutcomes == {"embed_raises", "search_raises", "no_rows", "rows"}

\* get_similar_content without its try/except
get_similar_content_Uncaught(ctx) ==
    [raised |-> ctx \in {"embed_raises", "search_raises"},
     rows |-> IF ctx = "rows" THEN Rows ELSE <<>>]

\* get_similar_content: cur.fetchall(), or [] when anything raised
get_similar_content(ctx) ==
    [raised |-> FALSE, rows |-> IF ctx = "rows" THEN Rows ELSE <<>>]

\* the system prompt: the bio, and the context block when there are rows
system_prompt(similar_content) ==
    IF similar_content # <<>>
    THEN bio \o <<<<"This is relevant context:">>, <<>>, <<"Relevant context:">>>>
             \o [i \in 1 .. Len(similar_content) |-> <<"- ", similar_content[i]>>]
    ELSE bio

\* what the "generate-text" action does, and the "reply-to-message" action
GenerateOutcomes == {"raises", "text"}
SendOutcomes == {"raises", "falsy", "truthy"}

\* _generate_reply: the actions it performs and the reply it returns
_generate_reply(original_message, ctx, gen) ==
    LET similar_content == get_similar_content(ctx)
        generate == [action |-> "generate-text",
                     params |-> [prompt |-> original_message,
                                 system_prompt |-> system_prompt(similar_content.rows)]]
    IN  IF similar_content.raised
        THEN [raised |-> TRUE, similar_content |-> similar_content.rows,
              performed |-> <<>>, reply |-> None]
        ELSE [raised |-> gen = "raises", similar_content |-> similar_content.rows,
              performed |-> <<generate>>,
              reply |-> IF gen = "raises" THEN None ELSE "generated reply"]

\* the outcome of reply_to_message that these steps amount to
OutcomeOf(generated, send) ==
    IF generated.raised THEN "generate_raises"
    ELSE IF send = "raises" THEN "reply_raises"
    ELSE IF send = "falsy" THEN "falsy"
    ELSE "ok"

\* reply_to_message is called for a message
ReplyToMessage ==
    \E message_id \in IdStrs, original_message \in {body_plain, body_mention},
       ctx \in ContextOutcomes, gen \in GenerateOutcomes, send \in SendOutcomes :
        LET generated == _generate_reply(original_message, ctx, gen)
            reply == [action |-> "reply-to-message",
                      params |-> [channel_id |-> channel_id,
                                  message_id |-> message_id,
                                  reply |-> generated.reply]]
        IN  /\ call' = [name |-> "reply_to_message", message_id |-> message_id,
                        original_message |-> original_message, context |-> ctx,
                        generate |-> gen, send |-> send]
            /\ result' = [kind |-> "return",
                          value |-> reply_to_message(OutcomeOf(generated, send)),
                          similar_content |-> generated.similar_content]
            /\ requests' = IF generated.raised THEN generated.performed
                           ELSE Append(generated.performed, reply)
            /\ UNCHANGED <<agent, message_tracking, _oauth_session>>

InitReply == Init /\ channel = <<>>

NextReply == ReplyToMessage

SpecReply == InitReply /\ [][NextReply]_vars

\* C21: when the embedding or the search raises, get_similar_content
\* returns [], "generate-text" is performed with the bio alone as system
\* prompt, and the generated reply is passed to "reply-to-message".
C21_DegradeOnContextFailure ==
    (/\ call.name = "reply_to_message"
     /\ call.context \in {"embed_raises", "search_raises"}) =>
        /\ Len(requests) >= 1
        /\ result.similar_content = <<>>
        /\ requests[1].action = "generate-text"
        /\ requests[1].params.prompt = call.original_message
        /\ requests[1].params.system_prompt = bio
        /\ call.generate # "raises" =>
              /\ Len(requests) = 2
              /\ requests[2].action = "reply-to-message"
              /\ requests[2].params.message_id = call.message_id
              /\ requests[2].params.reply = "generated reply"
              /\ result.value = (call.send = "truthy")

\* the embedding raised and the reply was generated and delivered
C21_Witness ==
    /\ call.name = "reply_to_message"
    /\ call.context = "embed_raises"
    /\ Len(requests) = 2
    /\ result.value = TRUE

\* ------------------------------------------------- DiscordAgent.__init__
REQUIRED_FIELDS == <<"name", "bio", "traits", "examples", "loop_delay", "config">>

\* the missing-field list that stops at the first missing field
missing_fields_FirstOnly(agent_dict) ==
    SubSeq(SelectSeq(REQUIRED_FIELDS, LAMBDA field : field \notin agent_dict), 1, 1)

\* [field for field in REQUIRED_FIELDS if field not in agent_dict]
missing_fields(agent_dict) ==
    SelectSeq(REQUIRED_FIELDS, LAMBDA field : field \notin agent_dict)

\* what __init__ finds around it: POSTGRES_URL set or not, the discord
\* connection, a configured LLM provider or none
DiscordStates == {"absent", "configure_fails", "configured"}

\* __init__ with the descriptor's keys agent_dict: what it raises and what
\* it has set up by then
__init__(agent_dict, env) ==
    IF missing_fields(agent_dict) # <<>>
    THEN [kind |-> "raise", error |-> "KeyError",
          missing |-> missing_fields(agent_dict), done |-> <<>>]
    ELSE IF ~env.postgres_url
    THEN [kind |-> "raise", error |-> "ValueError", missing |-> <<>>,
          done |-> <<>>]
    ELSE IF env.discord # "configured"
    THEN [kind |-> "raise", error |-> "ValueError", missing |-> <<>>,
          done |-> <<"db", "connection_manager">>]
    ELSE IF ~env.llm
    THEN [kind |-> "raise", error |-> "ValueError", missing |-> <<>>,
          done |-> <<"db", "connection_manager", "last_processed_message_id">>]
    ELSE [kind |-> "return", error |-> None, missing |-> <<>>,
          done |-> <<"db", "connection_manager", "last_processed_message_id",
                     "model_provider">>]

\* DiscordAgent(agent_name) is constructed from a descriptor file
Construct ==
    \E agent_dict \in SUBSET {REQUIRED_FIELDS[i] : i \in 1 .. Len(REQUIRED_FIELDS)},
       postgres_url \in BOOLEAN, discord \in DiscordStates, llm \in BOOLEAN :
        LET env == [postgres_url |-> postgres_url, discord |-> discord, llm |-> llm]
        IN  /\ call' = [name |-> "__init__", agent_dict |-> agent_dict, env |-> env]
            /\ result' = __init__(agent_dict, env)
            /\ UNCHANGED <<agent, message_tracking, requests, _oauth_session>>

InitConstruct == Init /\ channel = <<>>

NextConstruct == Construct

SpecConstruct == InitConstruct /\ [][NextConstruct]_vars

\* the required fields the descriptor of the last construction lacks
Lacking ==
    {"name", "bio", "traits", "examples", "loop_delay", "config"} \ call.agent_dict

\* C22: a descriptor that lacks required fields makes __init__ raise
\* KeyError naming every missing field before anything is set up; a
\* descriptor with all of them does not raise KeyError.
C22_ConfigValidation ==
    call.name = "__init__" =>
        /\ Lacking # {} =>
              /\ result.kind = "raise"
              /\ result.error = "KeyError"
              /\ {result.missing[i] : i \in 1 .. Len(result.missing)} = Lacking
              /\ Len(result.missing) = Cardinality(Lacking)
              /\ result.done = <<>>
        /\ Lacking = {} =>
              /\ result.error # "KeyError"
              /\ result.missing = <<>>

\* a descriptor with two or more required fields missing was rejected
C22_Witness ==
    /\ call.name = "__init__"
    /\ result.kind = "raise"
    /\ Len(result.missing) >= 2
    /\ call.env.postgres_url

\* C25: post_tweet and reply_to_tweet raise ValueError and make no API
\* request for an empty text and for a text of more than 280 characters;
\* a text of 1 to 280 characters passes the validation and goes on to the
\* request.
C25_TweetTextValidation ==
    (call.name = "handler" /\ call.func \in {"post_tweet", "reply_to_tweet"}) =>
        LET n == call.kwargs["message"].n IN
        /\ (n = 0 \/ n > 280) =>
              /\ result.kind = "raise"
              /\ result.error = "ValueError"
              /\ requests = <<>>
        /\ (n >= 1 /\ n <= 280) =>
              /\ result.error # "ValueError"
              /\ (call.env.creds \/ call.env.session # None) =>
                    /\ Len(requests) = 1
                    /\ requests[1].data["text"] = call.kwargs["message"]

\* a reply of exactly 280 characters was posted
C25_Witness ==
    /\ call.name = "handler"
    /\ call.func = "reply_to_tweet"
    /\ call.kwargs["message"].n = 280
    /\ result.kind = "return"
    /\ Len(requests) = 1

\* C26: _make_request returns the response body only when a response came
\* back whose status is 201 for POST and 200 for any other method; when no
\* session can be made, the transport fails or the status is another one,
\* it raises TwitterAPIError.
C26_MakeRequestErrors ==
    call.name = "_make_request" =>
        LET expected == IF call.method \in {"post", "POST"} THEN 201 ELSE 200
            good == /\ call.env.creds \/ call.env.session # None
                    /\ ~call.env.http.transport_error
                    /\ call.env.http.status_code = expected
        IN  /\ result.kind \in {"return", "raise"}
            /\ result.kind = "return" <=> good
            /\ result.kind = "return" => result.value = Body
            /\ result.kind = "raise" => result.error = "TwitterAPIError"

\* a POST got the status 200 on a connection whose session was open
C26_Witness ==
    /\ call.name = "_make_request"
    /\ call.method = "POST"
    /\ call.env.session # None
    /\ call.env.http.status_code = 200
    /\ ~call.env.http.transport_error
    /\ result.kind = "raise"
    /\ Len(requests) = 1

====
